---- MODULE Spec2Model ----
(***************************************************************************)
(* Student Finance Manager (src/script.js): the in-memory ledger record,   *)
(* its localStorage slot, the startup handler, the three form handlers,    *)
(* deleteExpense, the filter buttons, the dashboard and the expense list.  *)
(*                                                                         *)
(* JavaScript numbers are modelled with their non-finite members: a value  *)
(* is a record [t, n, d], t = "num" for the rational n/d (d > 0), "inf"    *)
(* for +/-Infinity (sign in n), "nan" for NaN and "null" for JSON null.    *)
(* Every number the ledger stores is an integer (d = 1); fractions only    *)
(* arise inside updateHealthIndicator, where the code divides.  For the    *)
(* small integers of the model IEEE division is monotone and exact enough  *)
(* that its comparisons agree with the rational ones.                      *)
(*                                                                         *)
(* Text typed into a field is a sequence of one-character strings.  A      *)
(* calendar date "2023-mm-dd" is the pair <<mm, dd>>, the empty date       *)
(* field is <<>>.  Instants (Date.now(), new Date(...)) are counted in     *)
(* ticks since 2023-01-01T00:00Z, TicksPerDay ticks to the day.            *)
(***************************************************************************)
EXTENDS Integers, Sequences, FiniteSets, TLC

VARIABLES state, slot, pc, clock, tz, dash, shown, last

vars == <<state, slot, pc, clock, tz, dash, shown, last>>

\* ---------------------------------------------------------------- bounds
MaxExpenses == 2
MaxTick == 1
TicksPerDay == 4

\* ------------------------------------------------------ JavaScript values
Frac(n, d) == [t |-> "num", n |-> n, d |-> d]
Num(n) == Frac(n, 1)
PosInf == [t |-> "inf", n |-> 1, d |-> 1]
NegInf == [t |-> "inf", n |-> -1, d |-> 1]
NaN == [t |-> "nan", n |-> 0, d |-> 1]
Null == [t |-> "null", n |-> 0, d |-> 1]

\* ToNumber: null coerces to +0 in arithmetic and comparison.
ToNumber(x) == IF x.t = "null" THEN Num(0) ELSE x

JsNeg(x) ==
    LET a == ToNumber(x)
    IN IF a.t = "nan" THEN NaN ELSE [a EXCEPT !.n = -a.n]

\* a + b
JsAdd(x, y) ==
    LET a == ToNumber(x)
        b == ToNumber(y)
    IN IF a.t = "nan" \/ b.t = "nan" THEN NaN
       ELSE IF a.t = "inf" /\ b.t = "inf" THEN (IF a.n = b.n THEN a ELSE NaN)
       ELSE IF a.t = "inf" THEN a
       ELSE IF b.t = "inf" THEN b
       ELSE Frac(a.n * b.d + b.n * a.d, a.d * b.d)

\* a - b
JsSub(x, y) == JsAdd(x, JsNeg(y))

\* a / k for a number k > 0
JsDivPos(x, k) ==
    LET a == ToNumber(x)
    IN IF a.t = "num" THEN Frac(a.n, a.d * k) ELSE a

\* a / k for any integer k (IEEE: x/0 is +/-Infinity, 0/0 is NaN)
JsDiv(x, k) ==
    LET a == ToNumber(x)
    IN IF a.t = "nan" THEN NaN
       ELSE IF k > 0 THEN JsDivPos(a, k)
       ELSE IF k < 0 THEN JsNeg(JsDivPos(a, -k))
       ELSE IF a.t = "num" /\ a.n = 0 THEN NaN
       ELSE IF a.n > 0 THEN PosInf ELSE NegInf

\* a * 0.5
JsHalf(x) ==
    LET a == ToNumber(x)
    IN IF a.t = "num" THEN Frac(a.n, a.d * 2) ELSE a

\* a < b (false whenever an operand is NaN)
JsLt(x, y) ==
    LET a == ToNumber(x)
        b == ToNumber(y)
    IN /\ a.t # "nan"
       /\ b.t # "nan"
       /\ \/ a = NegInf /\ b # NegInf
          \/ b = PosInf /\ a # PosInf
          \/ a.t = "num" /\ b.t = "num" /\ a.n * b.d < b.n * a.d

\* a > b
JsGt(x, y) == JsLt(y, x)

\* a >= b (false whenever an operand is NaN)
JsGe(x, y) ==
    /\ ToNumber(x).t # "nan"
    /\ ToNumber(y).t # "nan"
    /\ ~JsLt(x, y)

\* x === 0
IsZero(x) == x.t = "num" /\ x.n = 0

\* ToBoolean of a number or null: null, NaN and 0 are falsy.
Truthy(x) == ~(x.t \in {"null", "nan"} \/ IsZero(x))

\* ------------------------------------------------------------ parseFloat
Digits == <<"0", "1", "2", "3", "4", "5", "6", "7", "8", "9">>
IsDigit(c) == \E i \in 1..Len(Digits) : Digits[i] = c
DigitVal(c) == (CHOOSE i \in 1..Len(Digits) : Digits[i] = c) - 1
InfinityWord == <<"I", "n", "f", "i", "n", "i", "t", "y">>
StartsWith(s, p) == Len(s) >= Len(p) /\ SubSeq(s, 1, Len(p)) = p

RECURSIVE TrimStart(_)
TrimStart(s) ==
    IF Len(s) > 0 /\ Head(s) = " " THEN TrimStart(Tail(s)) ELSE s

RECURSIVE DigitPrefix(_)
DigitPrefix(s) ==
    IF Len(s) > 0 /\ IsDigit(Head(s))
    THEN <<Head(s)>> \o DigitPrefix(Tail(s))
    ELSE <<>>

RECURSIVE DecimalValue(_, _)
DecimalValue(ds, acc) ==
    IF Len(ds) = 0 THEN acc
    ELSE DecimalValue(Tail(ds), 10 * acc + DigitVal(Head(ds)))

\* parseFloat on text without "." or exponent: leading blanks are skipped,
\* then the longest prefix [+-]?(Infinity | digits) is the number; no such
\* prefix gives NaN; whatever follows the prefix is ignored.
parseFloat(str) ==
    LET t == TrimStart(str)
        signed == Len(t) > 0 /\ Head(t) \in {"+", "-"}
        neg == Len(t) > 0 /\ Head(t) = "-"
        body == IF signed THEN Tail(t) ELSE t
        ds == DigitPrefix(body)
        v == DecimalValue(ds, 0)
    IN IF StartsWith(body, InfinityWord) THEN (IF neg THEN NegInf ELSE PosInf)
       ELSE IF Len(ds) = 0 THEN NaN
       ELSE Num(IF neg THEN -v ELSE v)

\* -------------------------------------------------------------- calendar
MonthLengths == <<31, 28, 31, 30, 31, 30, 31, 31, 30, 31, 30, 31>>

RECURSIVE DaysBefore(_)
DaysBefore(m) == IF m <= 1 THEN 0 ELSE DaysBefore(m - 1) + MonthLengths[m - 1]

\* days from 2023-01-01 to the date <<m, d>>
EpochDay(date) == DaysBefore(date[1]) + date[2] - 1

\* the date <<m, d>> of day number n
DateOfDay(n) ==
    LET m == CHOOSE k \in 1..12 :
                 DaysBefore(k) <= n /\ n < DaysBefore(k) + MonthLengths[k]
    IN <<m, n - DaysBefore(m) + 1>>

\* new Date("2023-mm-dd"): a date-only string is midnight UTC of that day
DateInstant(date) == EpochDay(date) * TicksPerDay

\* the local calendar day number of an instant (getFullYear/getMonth/getDate)
LocalDay(instant, zone) == (instant + zone) \div TicksPerDay

\* new Date(y, m + 1, 0).getDate()
DaysInMonth(instant, zone) == MonthLengths[DateOfDay(LocalDay(instant, zone))[1]]

\* new Date().getDate()
DayOfMonth(instant, zone) == DateOfDay(LocalDay(instant, zone))[2]

\* ------------------------------------------------------------------ data
\* const state = { allowance: 0, goal: 0, expenses: [] }
ZeroDefault == [allowance |-> Num(0), goal |-> Num(0), expenses |-> <<>>]

\* localStorage['hostelFinanceData']: absent, text that is not JSON, or a
\* JSON document.
EmptySlot == [kind |-> "empty", doc |-> ZeroDefault]
CorruptSlot == [kind |-> "corrupt", doc |-> ZeroDefault]
JsonSlot(doc) == [kind |-> "json", doc |-> doc]

\* what the dashboard shows before updateDashboard ran
NoDash ==
    [totalSpent |-> Num(0), balance |-> Num(0), daysLeft |-> 0,
     health |-> "unset", savings |-> "unset"]

\* ----------------------------------------------------------- persistence
\* JSON.stringify of a number: NaN and the infinities are written as null.
JsonNumber(x) == IF x.t \in {"inf", "nan"} THEN Null ELSE x

\* JSON.stringify(state), as the document JSON.parse gives back
Stringify(st) ==
    [allowance |-> JsonNumber(st.allowance),
     goal |-> JsonNumber(st.goal),
     expenses |-> [i \in 1..Len(st.expenses) |->
                      [st.expenses[i] EXCEPT !.amount = JsonNumber(@)]]]

\* parsed.allowance || 0
OrZero(x) == IF Truthy(x) THEN x ELSE Num(0)

\* loadData: a slot that holds JSON gives parsed.allowance || 0,
\* parsed.goal || 0 and parsed.expenses || [] (an array, even an empty one,
\* is truthy); a slot without a value leaves the record as it is.
LoadData(st, sl) ==
    IF sl.kind = "json"
    THEN [allowance |-> OrZero(sl.doc.allowance),
          goal |-> OrZero(sl.doc.goal),
          expenses |-> sl.doc.expenses]
    ELSE st

\* JSON.parse throws SyntaxError
ParseThrows(sl) == sl.kind = "corrupt"

\* -------------------------------------------------------------- dashboard
RECURSIVE SumAmounts(_, _)
SumAmounts(es, acc) ==
    IF Len(es) = 0 THEN acc
    ELSE SumAmounts(Tail(es), JsAdd(acc, Head(es).amount))

\* state.expenses.reduce((sum, exp) => sum + exp.amount, 0)
TotalSpent(es) == SumAmounts(es, Num(0))

\* remainingDays || 1
OrOne(k) == IF k = 0 THEN 1 ELSE k

HealthStatusTightFirst(allowance, balance, remainingDays, totalDays) ==
    LET dailyBudget == JsDiv(balance, OrOne(remainingDays))
        idealDaily == JsDiv(allowance, totalDays)
    IN IF IsZero(allowance) THEN "Set Allowance"
       ELSE IF JsLt(dailyBudget, JsHalf(idealDaily)) THEN "Tight"
       ELSE IF JsLt(balance, Num(0)) THEN "Critical"
       ELSE IF JsGe(dailyBudget, idealDaily) THEN "Healthy"
       ELSE "Careful"

HealthStatus(allowance, balance, remainingDays, totalDays) ==
    LET dailyBudget == JsDiv(balance, OrOne(remainingDays))
        idealDaily == JsDiv(allowance, totalDays)
    IN IF IsZero(allowance) THEN "Set Allowance"
       ELSE IF JsLt(balance, Num(0)) THEN "Critical"
       ELSE IF JsLt(dailyBudget, JsHalf(idealDaily)) THEN "Tight"
       ELSE IF JsGe(dailyBudget, idealDaily) THEN "Healthy"
       ELSE "Careful"

\* which branch updateSavingsProgress takes (the percentage text itself is
\* not modelled)
SavingsText(goal) == IF IsZero(goal) THEN "No goal set" ELSE "progress"

UpdateDashboard(st, now, zone) ==
    LET totalSpent == TotalSpent(st.expenses)
        balance == JsSub(st.allowance, totalSpent)
        daysInMonth == DaysInMonth(now, zone)
        today == DayOfMonth(now, zone)
        remainingDays == daysInMonth - today
    IN [totalSpent |-> totalSpent,
        balance |-> balance,
        daysLeft |-> remainingDays,
        health |-> HealthStatus(st.allowance, balance, remainingDays, daysInMonth),
        savings |-> SavingsText(st.goal)]

\* ----------------------------------------------------------- expense list
\* isSameDay(new Date(exp.date), now)
IsSameDay(date, now, zone) == LocalDay(DateInstant(date), zone) = LocalDay(now, zone)

\* oneWeekAgo.setDate(now.getDate() - 7): the same local time seven days back
WeekDays == 7
OneWeekAgo(now) == now - WeekDays * TicksPerDay

\* new Date(exp.date) >= oneWeekAgo
InLastWeek(date, now) == DateInstant(date) >= OneWeekAgo(now)

Keep(e, filter, now, zone) ==
    IF filter = "today" THEN IsSameDay(e.date, now, zone)
    ELSE IF filter = "week" THEN InLastWeek(e.date, now)
    ELSE TRUE

\* Array.prototype.sort is stable: e goes behind every entry that is not older.
RECURSIVE InsertByDate(_, _)
InsertByDate(sorted, e) ==
    IF Len(sorted) = 0 THEN <<e>>
    ELSE IF DateInstant(Head(sorted).date) >= DateInstant(e.date)
         THEN <<Head(sorted)>> \o InsertByDate(Tail(sorted), e)
         ELSE <<e>> \o sorted

RECURSIVE SortNewestFirst(_, _)
SortNewestFirst(es, sorted) ==
    IF Len(es) = 0 THEN sorted
    ELSE SortNewestFirst(Tail(es), InsertByDate(sorted, Head(es)))

\* the rows renderExpenses(filter) puts into the transactions list
RenderExpenses(es, filter, now, zone) ==
    SortNewestFirst(SelectSeq(es, LAMBDA e : Keep(e, filter, now, zone)), <<>>)

\* ---------------------------------------------------------------- inputs
\* The day the page is opened, and the instant of its midnight UTC.
StartDate == <<2, 10>>
StartTick == DateInstant(StartDate)

\* UTC offsets of the browser, in ticks (local time = UTC + offset); the
\* ledger runs of Spec are in UTC, the dashboard runs of SpecHealth in each.
TimeZones == {-1, 0, 1}

\* text typed into #allowance-input and #goal-input
AllowanceInputs ==
    { <<>>, <<"a", "b", "c">>, <<"0">>, <<"-", "5">>, <<"1", "2">>,
      <<"I", "n", "f", "i", "n", "i", "t", "y">> }
GoalInputs == { <<>>, <<"0">>, <<"-", "5">>, <<" ", "5", "x">> }

\* what the expense form holds when it is submitted
Form(amount, category, date, note) ==
    [amount |-> amount, category |-> category, date |-> date, note |-> note]
ExpenseForms ==
    { Form(<<"5">>, "food", <<2, 3>>, ""),
      Form(<<"I", "n", "f", "i", "n", "i", "t", "y">>, "rent", <<2, 2>>, "tea"),
      Form(<<"0">>, "food", <<2, 3>>, ""),
      Form(<<"-", "5">>, "food", <<2, 3>>, ""),
      Form(<<"a", "b", "c">>, "food", <<2, 3>>, ""),
      Form(<<>>, "food", <<2, 3>>, "tea"),
      Form(<<"5">>, "food", <<>>, "tea") }

\* parseFloat(field.value) for each text a field can hold
FieldTexts ==
    AllowanceInputs \cup GoalInputs \cup { form.amount : form \in ExpenseForms }
ParsedField == [text \in FieldTexts |-> parseFloat(text)]

\* ids deleteExpense can be called with
IdInputs == { StartTick + k : k \in 0..MaxTick }

Filters == {"all", "today", "week"}

\* ----------------------------------------------------------------- state
Done(op, ok) == [op |-> op, ok |-> ok]

Init ==
    /\ state = ZeroDefault
    /\ slot \in {EmptySlot, CorruptSlot}
    /\ pc = "boot"
    /\ clock = StartTick
    /\ tz = 0
    /\ dash = NoDash
    /\ shown = <<>>
    /\ last = Done("open", TRUE)

\* -------------------------------------------------------------- operations
\* Date.now() moves on.
Tick ==
    /\ clock % TicksPerDay < MaxTick
    /\ clock % TicksPerDay < TicksPerDay - 1
    /\ clock' = clock + 1
    /\ UNCHANGED <<state, slot, pc, tz, dash, shown, last>>

\* The DOMContentLoaded handler: loadData, updateDate, updateDashboard,
\* renderExpenses, setupEventListeners.  When JSON.parse throws, the handler
\* ends there: nothing is drawn and no listener is attached.
Startup ==
    /\ pc = "boot"
    /\ IF ParseThrows(slot)
       THEN /\ pc' = "crashed"
            /\ last' = Done("startup", FALSE)
            /\ UNCHANGED <<state, dash, shown>>
       ELSE /\ state' = LoadData(state, slot)
            /\ dash' = UpdateDashboard(state', clock, tz)
            /\ shown' = RenderExpenses(state'.expenses, "all", clock, tz)
            /\ pc' = "ready"
            /\ last' = Done("startup", TRUE)
    /\ UNCHANGED <<slot, clock, tz>>

\* The page is loaded again: the script starts over with its initial record.
Reload ==
    /\ pc \in {"ready", "crashed"}
    /\ state' = ZeroDefault
    /\ dash' = NoDash
    /\ shown' = <<>>
    /\ pc' = "boot"
    /\ last' = Done("open", TRUE)
    /\ UNCHANGED <<slot, clock, tz>>

\* saveData(): setItem, updateDashboard, renderExpenses()
SaveData ==
    /\ slot' = JsonSlot(Stringify(state'))
    /\ dash' = UpdateDashboard(state', clock, tz)
    /\ shown' = RenderExpenses(state'.expenses, "all", clock, tz)

\* amount > 0
AmountAcceptedOrZero(amount) == JsGe(amount, Num(0))
AmountAccepted(amount) == JsGt(amount, Num(0))

\* a non-empty date field
DatePresent(date) == Len(date) > 0

\* allowanceForm submit
AllowanceSubmit(text) ==
    LET amount == ParsedField[text]
    IN /\ pc = "ready"
       /\ IF AmountAccepted(amount)
          THEN /\ state' = [state EXCEPT !.allowance = amount]
               /\ SaveData
               /\ last' = Done("setAllowance", TRUE)
          ELSE /\ last' = Done("setAllowance", FALSE)
               /\ UNCHANGED <<state, slot, dash, shown>>
       /\ UNCHANGED <<pc, clock, tz>>

\* goalForm submit
GoalSubmit(text) ==
    LET amount == ParsedField[text]
    IN /\ pc = "ready"
       /\ IF AmountAccepted(amount)
          THEN /\ state' = [state EXCEPT !.goal = amount]
               /\ SaveData
               /\ last' = Done("setGoal", TRUE)
          ELSE /\ last' = Done("setGoal", FALSE)
               /\ UNCHANGED <<state, slot, dash, shown>>
       /\ UNCHANGED <<pc, clock, tz>>

\* { id: Date.now(), amount, category, date, note }
NewExpense(amount, form, now) ==
    [id |-> now, amount |-> amount, category |-> form.category,
     date |-> form.date, note |-> form.note]

\* state.expenses.push(newExpense)
PushReplacing(es, e) == <<e>>
Push(es, e) == Append(es, e)

\* expenseForm submit
ExpenseSubmit(form) ==
    LET amount == ParsedField[form.amount]
    IN /\ pc = "ready"
       /\ IF AmountAccepted(amount) /\ DatePresent(form.date)
          THEN /\ Len(state.expenses) < MaxExpenses
               /\ state' = [state EXCEPT
                               !.expenses = Push(@, NewExpense(amount, form, clock))]
               /\ SaveData
               /\ last' = Done("addExpense", TRUE)
          ELSE /\ last' = Done("addExpense", FALSE)
               /\ UNCHANGED <<state, slot, dash, shown>>
       /\ UNCHANGED <<pc, clock, tz>>

\* state.expenses.filter(exp => exp.id !== id)
WithoutId(es, id) == SelectSeq(es, LAMBDA e : e.id # id)

\* window.deleteExpense(id); confirmed is the answer to confirm(...)
DeleteExpense(id, confirmed) ==
    /\ pc = "ready"
    /\ IF confirmed
       THEN /\ state' = [state EXCEPT !.expenses = WithoutId(@, id)]
            /\ SaveData
       ELSE UNCHANGED <<state, slot, dash, shown>>
    /\ last' = Done("deleteExpense", confirmed)
    /\ UNCHANGED <<pc, clock, tz>>

\* a click on a filter button: renderExpenses(btn.dataset.filter)
FilterClick(filter) ==
    /\ pc = "ready"
    /\ shown' = RenderExpenses(state.expenses, filter, clock, tz)
    /\ last' = Done(filter, TRUE)
    /\ UNCHANGED <<state, slot, pc, clock, tz, dash>>

Next ==
    \/ Tick
    \/ Startup
    \/ Reload
    \/ \E text \in AllowanceInputs : AllowanceSubmit(text)
    \/ \E text \in GoalInputs : GoalSubmit(text)
    \/ \E form \in ExpenseForms : ExpenseSubmit(form)
    \/ \E id \in IdInputs, confirmed \in BOOLEAN : DeleteExpense(id, confirmed)
    \/ \E filter \in Filters : FilterClick(filter)

Spec == Init /\ [][Next]_vars

\* ------------------------------------------------- the dashboard, widely
\* A second specification for the dashboard: the page is opened on any day
\* of February 2023 over a record saved on an earlier visit, and the
\* allowance is edited.
HealthDates == { <<2, d>> : d \in 1..MonthLengths[2] }
SavedAllowances == { Num(0), Num(12), Num(30) }
SavedExpense(amount) ==
    [id |-> 0, amount |-> amount, category |-> "food", date |-> <<2, 1>>, note |-> ""]
SavedAmounts == { Num(5), Num(12) }
SavedExpenses ==
    UNION { [1..n -> { SavedExpense(a) : a \in SavedAmounts }] : n \in 0..MaxExpenses }

InitHealth ==
    /\ state = ZeroDefault
    /\ \E a \in SavedAllowances, es \in SavedExpenses :
           slot = JsonSlot([allowance |-> a, goal |-> Num(0), expenses |-> es])
    /\ pc = "boot"
    /\ \E date \in HealthDates : clock = DateInstant(date)
    /\ tz \in TimeZones
    /\ dash = NoDash
    /\ shown = <<>>
    /\ last = Done("open", TRUE)

NextHealth ==
    \/ Tick
    \/ Startup
    \/ \E text \in AllowanceInputs : AllowanceSubmit(text)

SpecHealth == InitHealth /\ [][NextHealth]_vars

\* ------------------------------------------------------------------ claims
Ids(es) == { es[i].id : i \in 1..Len(es) }
RemoveAt(es, i) == SubSeq(es, 1, i - 1) \o SubSeq(es, i + 1, Len(es))
Mutations == {"setAllowance", "setGoal", "addExpense", "deleteExpense"}
UserActions == Mutations \cup Filters

\* amount <= 0 or not a number
InvalidAmount(x) == x.t = "nan" \/ IsZero(x) \/ JsLt(x, Num(0))

\* the inputs C3 is about
InvalidAllowanceInputs ==
    { text \in AllowanceInputs : InvalidAmount(parseFloat(text)) }
InvalidGoalInputs == { text \in GoalInputs : InvalidAmount(parseFloat(text)) }
InvalidExpenseForms ==
    { form \in ExpenseForms :
          InvalidAmount(parseFloat(form.amount)) \/ form.date = <<>> }

\* the inputs C8 is about: amount > 0 and a date
ValidExpenseForms ==
    { form \in ExpenseForms :
          JsGt(parseFloat(form.amount), Num(0)) /\ form.date # <<>> }

\* C1: load never fails: whatever the slot holds, startup ends with the page
\* ready, and with the zero-default record when the slot held no valid JSON.
C1_LoadNeverFails ==
    last.op = "startup" =>
        /\ pc = "ready"
        /\ (slot.kind # "json" => state = ZeroDefault)

\* C2: the ids of the expense list are pairwise distinct.
C2_IdsDistinct ==
    \A i, j \in 1..Len(state.expenses) :
        i # j => state.expenses[i].id # state.expenses[j].id

\* C3: a rejected setAllowance, setGoal or addExpense (amount <= 0, amount
\* not a number, or no date) leaves the record and the slot as they were:
\* no step that changes either is a submit of such an input.
C3_RejectedChangesNothing ==
    [][ ~UNCHANGED <<state, slot>> =>
            /\ \A text \in InvalidAllowanceInputs : ~AllowanceSubmit(text)
            /\ \A text \in InvalidGoalInputs : ~GoalSubmit(text)
            /\ \A form \in InvalidExpenseForms : ~ExpenseSubmit(form) ]_vars

\* C3 witness: a rejected submit on a record that holds an allowance and an
\* expense and has been saved.
C3_Witness ==
    /\ last \in {Done("setAllowance", FALSE), Done("addExpense", FALSE)}
    /\ ~IsZero(state.allowance)
    /\ Len(state.expenses) > 0
    /\ slot.kind = "json"

\* C4: a confirmed deleteExpense(id) with id in the list removes one entry,
\* the one with that id, and keeps the others in order, the allowance and
\* the goal; with id not in the list the record stays as it is.
C4_RemovesExactlyThatEntry ==
    [][ \A id \in IdInputs :
            DeleteExpense(id, TRUE) =>
                IF id \in Ids(state.expenses)
                THEN /\ \E i \in 1..Len(state.expenses) :
                            /\ state.expenses[i].id = id
                            /\ state'.expenses = RemoveAt(state.expenses, i)
                     /\ state'.allowance = state.allowance
                     /\ state'.goal = state.goal
                ELSE state' = state ]_vars

\* C5: allowance >= 0, goal >= 0 and every stored expense has amount > 0.
C5_RecordInvariant ==
    /\ JsGe(state.allowance, Num(0))
    /\ JsGe(state.goal, Num(0))
    /\ \A i \in 1..Len(state.expenses) :
           /\ state.expenses[i].amount.t # "null"
           /\ JsGt(state.expenses[i].amount, Num(0))

\* the rule of C6, from the record and the local date
Max(a, b) == IF a >= b THEN a ELSE b
FiveStatuses == {"Set Allowance", "Critical", "Tight", "Healthy", "Careful"}
ClaimedHealth(st, now, zone) ==
    LET balance == JsSub(st.allowance, TotalSpent(st.expenses))
        daysInMonth == DaysInMonth(now, zone)
        remainingDays == daysInMonth - DayOfMonth(now, zone)
        dailyBudget == JsDiv(balance, Max(remainingDays, 1))
        idealDaily == JsDiv(st.allowance, daysInMonth)
    IN CASE IsZero(st.allowance) -> "Set Allowance"
         [] ~IsZero(st.allowance) /\ JsLt(balance, Num(0)) -> "Critical"
         [] OTHER ->
              IF JsLt(dailyBudget, JsHalf(idealDaily)) THEN "Tight"
              ELSE IF JsGe(dailyBudget, idealDaily) THEN "Healthy"
              ELSE "Careful"

\* a step that draws the dashboard: startup, or an accepted change
Draws == pc' = "ready" /\ ~UNCHANGED <<state, slot, dash, pc>>

\* C6: the health status shown is the first matching rule of: allowance = 0,
\* Set Allowance; balance < 0, Critical; dailyBudget < idealDaily / 2, Tight;
\* dailyBudget >= idealDaily, Healthy; else Careful; always one of the five.
C6_HealthRule ==
    [][ Draws =>
            /\ dash'.health \in FiveStatuses
            /\ dash'.health = ClaimedHealth(state', clock', tz')
            /\ (IsZero(state'.allowance) => dash'.health = "Set Allowance")
            /\ (JsGt(state'.allowance, Num(0)) /\ JsLt(dash'.balance, Num(0))
                    => dash'.health = "Critical") ]_vars

\* C6 witness: on the last day of the month (no days left) a record with
\* expenses is shown as Tight.
C6_Witness ==
    /\ pc = "ready"
    /\ dash.daysLeft = 0
    /\ dash.health = "Tight"
    /\ Len(state.expenses) > 0

\* C7: the week filter shows exactly the expenses dated on or after the
\* local calendar day seven days before today.
C7_WeekFilter ==
    [][ FilterClick("week") =>
            \A i \in 1..Len(state.expenses) :
                (\E j \in 1..Len(shown') : shown'[j] = state.expenses[i])
                <=> EpochDay(state.expenses[i].date)
                        >= LocalDay(clock, tz) - WeekDays ]_vars

\* C8: an accepted addExpense adds the amount to totalSpent, appends one
\* entry with the given amount, category, date and note, and shows
\* balance = allowance - totalSpent.
C8_AddExpense ==
    [][ \A form \in ValidExpenseForms :
            ExpenseSubmit(form)
            => LET n == Len(state.expenses)
                   e == state'.expenses[n + 1]
               IN /\ Len(state'.expenses) = n + 1
                  /\ SubSeq(state'.expenses, 1, n) = state.expenses
                  /\ e.amount = parseFloat(form.amount)
                  /\ e.category = form.category
                  /\ e.date = form.date
                  /\ e.note = form.note
                  /\ dash.totalSpent = TotalSpent(state.expenses)
                  /\ dash'.totalSpent
                         = JsAdd(dash.totalSpent, parseFloat(form.amount))
                  /\ dash'.balance = JsSub(state'.allowance, dash'.totalSpent) ]_vars

\* C8 witness: two accepted expenses of 5 on an allowance of 12.
C8_Witness ==
    /\ last = Done("addExpense", TRUE)
    /\ Len(state.expenses) = 2
    /\ dash.totalSpent = Num(10)
    /\ dash.balance = Num(2)

\* C9: right after a save, loading the slot gives back the saved record.
C9_RoundTrip ==
    (pc = "ready" /\ last.ok /\ last.op \in Mutations)
        => LoadData(ZeroDefault, slot) = state

\* C10: after a user action the slot is empty and the record the zero
\* default, or the slot holds the serialization of the record.
C10_SlotInStep ==
    (pc = "ready" /\ last.op \in UserActions)
        => \/ slot = EmptySlot /\ state = ZeroDefault
           \/ slot = JsonSlot(Stringify(state))

====
